---- MODULE Spec2Model ----
(***************************************************************************)
(* layoutflash (src/tools/layoutflash/src/main.rs): the area extractor     *)
(* (read_fixed_fdt, read_area_node) and the layout compiler (layout_flash).*)
(*                                                                         *)
(* Spec     the layout compiler run on a list of areas                     *)
(* SpecFdt  the area extractor run on a well-formed event stream           *)
(*                                                                         *)
(* Strings (paths, node and property names) are sequences of one-character *)
(* strings, so that prefix/suffix tests and substring replacement are      *)
(* computed.  Option<T> is a sequence of length at most one.               *)
(***************************************************************************)
EXTENDS Integers, Sequences, FiniteSets

VARIABLES
    input,          \* layout_flash: the slice as passed by the caller
    areas,          \* layout_flash: the slice `areas` (sorted in place)
    perm,           \* history: perm[k] = input position of areas[k]
    pc,             \* layout_flash: "start", "loop", "ok", "err", "panic" ("idle" in SpecFdt)
    i,              \* layout_flash: position of the for loop (1-based)
    last_area_end,  \* layout_flash: local `last_area_end`
    offsets,        \* history: local `offset` of every iteration so far
    out,            \* the bytes of the output file
    err,            \* the io::Error returned, if any
    build,          \* whether an overflowing addition has wrapped
    stream,         \* read_fixed_fdt: the events of the device tree
    pos,            \* FdtIterator: index of the next event
    fdt_areas,      \* read_fixed_fdt: local `areas`
    area,           \* read_area_node: local `area`
    fpc             \* extractor: "top", "area", "done" ("idle" in Spec)

vars == <<input, areas, perm, pc, i, last_area_end, offsets, out, err, build,
          stream, pos, fdt_areas, area, fpc>>

layoutVars == <<input, areas, perm, pc, i, last_area_end, offsets, out, err, build>>

fdtVars == <<stream, pos, fdt_areas, area, fpc>>

(***************************************************************************)
(* Bounds                                                                  *)
(***************************************************************************)
\* width of the machine word standing for u32
WordBits == 3

\* longest list of areas handed to layout_flash
MaxAreas == 3

\* most events between the root node's start and its end
MaxBody == 6

\* most property events of a stream
MaxProps == 2

(***************************************************************************)
(* Values                                                                  *)
(***************************************************************************)
None == <<>>

Some(x) == <<x>>

\* u32 holds 0 .. Modulus - 1
Modulus == 2 ^ WordBits

U32Max == Modulus - 1

\* the fill byte
FF == 255

\* struct Area
Area(d, c, o, s, f) ==
    [description |-> d, compatible |-> c, offset |-> o, size |-> s, file |-> f]

\* Area { ..Default::default() }
DefaultArea == Area(<<>>, <<>>, None, 0, None)

(***************************************************************************)
(* Strings                                                                 *)
(***************************************************************************)
StartsWith(s, p) == Len(s) >= Len(p) /\ SubSeq(s, 1, Len(p)) = p

EndsWith(s, p) == Len(s) >= Len(p) /\ SubSeq(s, Len(s) - Len(p) + 1, Len(s)) = p

\* str::replace: every non-overlapping match of `from`, left to right
RECURSIVE Replace(_, _, _)
Replace(s, from, to) ==
    IF s = <<>> THEN <<>>
    ELSE IF StartsWith(s, from)
         THEN to \o Replace(SubSeq(s, Len(from) + 1, Len(s)), from, to)
         ELSE <<Head(s)>> \o Replace(Tail(s), from, to)

\* format!("$({})", key)
Pattern(key) == <<"$", "(">> \o key \o <<")">>

(***************************************************************************)
(* The environment of the process and the files it can read                *)
(***************************************************************************)
\* env::vars(): S is set, U and V are not
EnvVars == << [key |-> <<"S">>, value |-> <<"g">>] >>

\* fs::read(&path): Some(bytes), or None for Err
ReadFile(path) == IF path = <<"g">> THEN Some(<<1, 2>>) ELSE None

RECURSIVE SubstFrom(_, _)
SubstFrom(path, k) ==
    IF k > Len(EnvVars) THEN path
    ELSE SubstFrom(Replace(path, Pattern(EnvVars[k].key), EnvVars[k].value), k + 1)

\* the loop over env::vars()
SubstituteEnv(path) == SubstFrom(path, 1)

\* path.starts_with("$(") && path.ends_with(')')
IsUnusedVar(path) == StartsWith(path, <<"$", "(">>) /\ EndsWith(path, <<")">>)

(***************************************************************************)
(* The output file                                                         *)
(***************************************************************************)
Max(a, b) == IF a >= b THEN a ELSE b

Fill(n, b) == [k \in 1..n |-> b]

WriteAtPadded(f, off, data) ==
    [k \in 1..Max(Len(f), off + Len(data)) |->
        IF k > off /\ k <= off + Len(data) THEN data[k - off]
        ELSE IF k <= Len(f) THEN f[k] ELSE 0]

\* f.seek(SeekFrom::Start(off)); f.write_all(&data): an empty write leaves
\* the file as it is; bytes between the old end and off read as 0.
WriteAt(f, off, data) ==
    IF data = <<>> THEN f
    ELSE [k \in 1..Max(Len(f), off + Len(data)) |->
            IF k > off /\ k <= off + Len(data) THEN data[k - off]
            ELSE IF k <= Len(f) THEN f[k] ELSE 0]

(***************************************************************************)
(* layout_flash                                                            *)
(***************************************************************************)
\* Option<u32> ordering: None < Some(x), Some(x) <= Some(y) iff x <= y
KeyLeq(a, b) == a = None \/ (b # None /\ a[1] <= b[1])

Perms(n) == {p \in [1..n -> 1..n] : \A a, b \in 1..n : a # b => p[a] # p[b]}

SortedBy(l, p) == \A a, b \in 1..Len(l) : a < b => KeyLeq(l[p[a]].offset, l[p[b]].offset)

\* areas.sort_unstable_by_key(|a| a.offset): any arrangement ordered by key
SortResults(l) == {p \in Perms(Len(l)) : SortedBy(l, p)}

NoErr == [kind |-> "none", n1 |-> 0, n2 |-> 0, descr |-> <<>>, path |-> <<>>]

\* the area of the current iteration and the locals computed from it
Cur == areas[i]

\* let offset = match a.offset { Some(x) => x, None => last_area_end }
Resolve(a, last) == IF a.offset = None THEN last ELSE a.offset[1]

CurOffset == Resolve(Cur, last_area_end)

OverlapsLeq(offset, last) == offset <= last

\* if offset < last_area_end
Overlaps(offset, last) == offset < last

\* offset + a.size before it is stored in a u32
CurEnd == CurOffset + Cur.size

Overflows == CurEnd >= Modulus

CurPath == SubstituteEnv(Cur.file[1])

CurData == ReadFile(CurPath)

TooBigGeq(data, size) == Len(data) >= size

\* if data.len() > a.size as usize
TooBig(data, size) == Len(data) > size

\* v.resize(a.size, 0xff); f.seek(offset); f.write_all(&v)
Filled == WriteAt(out, CurOffset, Fill(Cur.size, FF))

\* the iteration got past the overlap test and the addition
Advance ==
    /\ pc = "loop"
    /\ i <= Len(areas)
    /\ ~Overlaps(CurOffset, last_area_end)
    /\ last_area_end' = CurEnd % Modulus
    /\ build' = IF Overflows THEN "release" ELSE build
    /\ offsets' = Append(offsets, CurOffset)
    /\ UNCHANGED <<input, areas, perm, fdtVars>>

\* sort, File::create
Start ==
    /\ pc = "start"
    /\ \E p \in SortResults(areas) :
          /\ perm' = p
          /\ areas' = [k \in 1..Len(areas) |-> areas[p[k]]]
    /\ pc' = "loop"
    /\ out' = <<>>
    /\ UNCHANGED <<input, i, last_area_end, offsets, err, build, fdtVars>>

\* return Err("Areas are overlapping ...")
StepOverlap ==
    /\ pc = "loop"
    /\ i <= Len(areas)
    /\ Overlaps(CurOffset, last_area_end)
    /\ pc' = "err"
    /\ err' = [NoErr EXCEPT !.kind = "overlap", !.n1 = last_area_end,
                            !.descr = Cur.description, !.n2 = CurOffset]
    /\ offsets' = Append(offsets, CurOffset)
    /\ UNCHANGED <<input, areas, perm, i, last_area_end, out, build, fdtVars>>

\* offset + a.size overflows in a build with overflow checks: panic
StepPanic ==
    /\ pc = "loop"
    /\ i <= Len(areas)
    /\ ~Overlaps(CurOffset, last_area_end)
    /\ Overflows
    /\ build = "unknown"
    /\ pc' = "panic"
    /\ offsets' = Append(offsets, CurOffset)
    /\ UNCHANGED <<input, areas, perm, i, last_area_end, out, err, build, fdtVars>>

\* an iteration for an area without a file
StepNoFile ==
    /\ Advance
    /\ Cur.file = None
    /\ out' = Filled
    /\ i' = i + 1
    /\ UNCHANGED <<pc, err>>

\* the path is an unused environment variable: continue
StepSkip ==
    /\ Advance
    /\ Cur.file # None
    /\ IsUnusedVar(CurPath)
    /\ out' = Filled
    /\ i' = i + 1
    /\ UNCHANGED <<pc, err>>

\* return Err("Could not open: ...")
StepOpenErr ==
    /\ Advance
    /\ Cur.file # None
    /\ ~IsUnusedVar(CurPath)
    /\ CurData = None
    /\ out' = Filled
    /\ pc' = "err"
    /\ err' = [NoErr EXCEPT !.kind = "open", !.path = CurPath]
    /\ UNCHANGED i

\* return Err("File ... is too big to fit into the flash area ...")
StepTooBig ==
    /\ Advance
    /\ Cur.file # None
    /\ ~IsUnusedVar(CurPath)
    /\ CurData # None
    /\ TooBig(CurData[1], Cur.size)
    /\ out' = Filled
    /\ pc' = "err"
    /\ err' = [NoErr EXCEPT !.kind = "toobig", !.path = CurPath,
                            !.n1 = Len(CurData[1]), !.n2 = Cur.size]
    /\ UNCHANGED i

\* f.seek(offset); f.write_all(&data)
StepWrite ==
    /\ Advance
    /\ Cur.file # None
    /\ ~IsUnusedVar(CurPath)
    /\ CurData # None
    /\ ~TooBig(CurData[1], Cur.size)
    /\ out' = WriteAt(Filled, CurOffset, CurData[1])
    /\ i' = i + 1
    /\ UNCHANGED <<pc, err>>

\* Ok(())
Return ==
    /\ pc = "loop"
    /\ i > Len(areas)
    /\ pc' = "ok"
    /\ UNCHANGED <<input, areas, perm, i, last_area_end, offsets, out, err, build, fdtVars>>

(***************************************************************************)
(* Inputs of layout_flash                                                  *)
(***************************************************************************)
Descr(k) == <<"a", k>>

InOffsets == {None, Some(2), Some(U32Max)}

InSizes == {0, 2, U32Max}

Paths == { <<"$", "(", "S", ")">>,
           <<"$", "(", "U", ")">>,
           <<"$", "(", "U", ")", "$", "(", "V", ")">>,
           <<"$", "(", "S", ")", "$", "(", "U", ")">> }

\* $(S) names the readable file; the other paths stay unresolved or unreadable
ReadablePath == <<"$", "(", "S", ")">>

\* areas without a file take every offset and size; the readable file is put in
\* areas of every size, and once at an explicit offset; every other path is
\* put in one area of size 2
Shapes ==
    [offset : InOffsets, size : InSizes, file : {None}]
      \cup [offset : {None}, size : InSizes, file : {Some(ReadablePath)}]
      \cup {[offset |-> Some(2), size |-> U32Max, file |-> Some(ReadablePath)]}
      \cup [offset : {None}, size : {2}, file : {Some(p) : p \in Paths \ {ReadablePath}}]

InitLayout ==
    /\ \E n \in 0..MaxAreas : \E sh \in [1..n -> Shapes] :
          input = [k \in 1..n |->
                     Area(Descr(k), <<>>, sh[k].offset, sh[k].size, sh[k].file)]
    /\ areas = input
    /\ perm = [k \in 1..Len(input) |-> k]
    /\ pc = "start"
    /\ i = 1
    /\ last_area_end = 0
    /\ offsets = <<>>
    /\ out = <<>>
    /\ err = NoErr
    /\ build = "unknown"
    /\ stream = <<>>
    /\ pos = 1
    /\ fdt_areas = <<>>
    /\ area = DefaultArea
    /\ fpc = "idle"

Init == InitLayout

Next ==
    \/ Start
    \/ StepOverlap
    \/ StepPanic
    \/ StepNoFile
    \/ StepSkip
    \/ StepOpenErr
    \/ StepTooBig
    \/ StepWrite
    \/ Return

Spec == Init /\ [][Next]_vars

(***************************************************************************)
(* Properties of layout_flash                                              *)
(***************************************************************************)
\* areas the loop has entered
Entered == 1..Len(offsets)

\* areas whose iteration ran to its end
Passed == 1..(i - 1)

\* the end of area k in unbounded arithmetic
TrueEnd(k) == offsets[k] + areas[k].size

SetMax(S) == IF S = {} THEN 0 ELSE CHOOSE m \in S : \A x \in S : x <= m

PathOf(k) == SubstituteEnv(areas[k].file[1])

\* the path left after substitution is $(NAME) and nothing else
ExactVarForm(path) ==
    /\ StartsWith(path, <<"$", "(">>)
    /\ EndsWith(path, <<")">>)
    /\ \A k \in 3..(Len(path) - 1) : path[k] \notin {"$", "(", ")"}

AllFF(from, to) == \A k \in (from + 1)..to : k <= Len(out) /\ out[k] = FF

\* C1 as stated: on success the length of the output file is the maximum
\* over all areas of resolved offset + size, whatever the sizes are.
C1_Stated ==
    pc = "ok" => Len(out) = SetMax({TrueEnd(k) : k \in Entered})

\* C1 amended: on success the length of the output file is the maximum of
\* resolved offset + size over the areas of non-zero size, and 0 if there is
\* none: writing zero bytes at an offset past the end does not extend the file.
C1_Length ==
    pc = "ok" =>
        Len(out) = SetMax({TrueEnd(k) : k \in {j \in Entered : areas[j].size > 0}})

\* a successful run whose last area is empty and lies beyond the written bytes
C1_Witness ==
    /\ pc = "ok"
    /\ Len(out) > 0
    /\ \E k \in Entered : areas[k].size = 0 /\ offsets[k] > Len(out)

\* C2 as stated: an area without an explicit offset is resolved to the end
\* (resolved offset + size) of the area processed just before it, to 0 if it
\* is the first; an area with an explicit offset keeps that offset.
C2_Stated ==
    \A k \in Entered :
        offsets[k] = IF areas[k].offset # None THEN areas[k].offset[1]
                     ELSE IF k = 1 THEN 0 ELSE TrueEnd(k - 1)

\* the offsets the areas get by the rule of C2, in unbounded arithmetic
RECURSIVE RuleOffset(_)
RuleOffset(k) ==
    IF areas[k].offset # None THEN areas[k].offset[1]
    ELSE IF k = 1 THEN 0 ELSE RuleOffset(k - 1) + areas[k - 1].size

RangesMeet(j, k) ==
    /\ areas[j].size > 0
    /\ areas[k].size > 0
    /\ RuleOffset(j) < RuleOffset(k) + areas[k].size
    /\ RuleOffset(k) < RuleOffset(j) + areas[j].size

C4_Stated ==
    pc = "ok" =>
        \A k \in Entered :
            (areas[k].file # None /\ ReadFile(PathOf(k)) # None
               /\ Len(ReadFile(PathOf(k))[1]) <= areas[k].size)
            => LET data == ReadFile(PathOf(k))[1]
               IN  /\ Len(out) >= TrueEnd(k)
                   /\ SubSeq(out, offsets[k] + 1, offsets[k] + Len(data)) = data
                   /\ AllFF(offsets[k] + Len(data), TrueEnd(k))

C6_Stated ==
    /\ \A k \in Passed :
          areas[k].file # None =>
              IF ExactVarForm(PathOf(k))
              THEN AllFF(offsets[k], TrueEnd(k))
              ELSE ReadFile(PathOf(k)) # None
    /\ (pc = "err" /\ err.kind \in {"open", "toobig"}) => ~ExactVarForm(PathOf(i))

\* C9 as stated: the ordering step is stable, areas with equal keys stay in
\* the order of the input list.
C9_Stated ==
    \A a, b \in 1..Len(areas) :
        (a < b /\ areas[a].offset = areas[b].offset) => perm[a] < perm[b]

\* C10 as stated: the addition offset + size never exceeds the 32-bit range,
\* so last_area_end is the true end of the area just processed.
C10_Stated ==
    /\ pc # "panic"
    /\ (pc \in {"loop", "ok"} /\ i > 1) => last_area_end = TrueEnd(i - 1)

(***************************************************************************)
(* The device tree: events, the iterator and the type inference            *)
(***************************************************************************)
\* Entry::StartNode { name }, Entry::EndNode, Entry::Property { name, value }
StartNode(name) == [kind |-> "StartNode", name |-> name, value |-> <<>>]

EndNode == [kind |-> "EndNode", name |-> <<>>, value |-> <<>>]

Property(name, value) == [kind |-> "Property", name |-> name, value |-> value]

\* capacity of the buffer read_all reads a value into
MAX_NAME_SIZE == 100

Min(a, b) == IF a <= b THEN a ELSE b

\* read_all: at most MAX_NAME_SIZE bytes of the value
read_all(value) == SubSeq(value, 1, Min(Len(value), MAX_NAME_SIZE))

Printable(b) == b >= 32 /\ b <= 126

\* infer_type: printable bytes closed by one NUL are a string, four other
\* bytes a big-endian u32, anything else has no type the extractor uses
infer_type(data) ==
    IF data = <<>> THEN [tag |-> "Empty", str |-> <<>>, num |-> 0]
    ELSE IF data[Len(data)] = 0 /\ \A k \in 1..(Len(data) - 1) : Printable(data[k])
    THEN [tag |-> "String", str |-> SubSeq(data, 1, Len(data) - 1), num |-> 0]
    ELSE IF Len(data) = 4
    THEN [tag |-> "U32", str |-> <<>>,
          num |-> ((data[1] * 256 + data[2]) * 256 + data[3]) * 256 + data[4]]
    ELSE [tag |-> "Unknown", str |-> <<>>, num |-> 0]

\* FdtIterator::skip_node from position p: the position after the EndNode
\* that closes the node the iterator is in
RECURSIVE SkipFrom(_, _)
SkipFrom(p, depth) ==
    IF p > Len(stream) THEN p
    ELSE IF stream[p].kind = "StartNode" THEN SkipFrom(p + 1, depth + 1)
    ELSE IF stream[p].kind = "EndNode"
         THEN IF depth = 1 THEN p + 1 ELSE SkipFrom(p + 1, depth - 1)
         ELSE SkipFrom(p + 1, depth)

skip_node(p) == SkipFrom(p, 1)

(***************************************************************************)
(* read_area_node, read_fixed_fdt                                          *)
(***************************************************************************)
N_description == <<"d", "e", "s", "c", "r", "i", "p", "t", "i", "o", "n">>

N_compatible == <<"c", "o", "m", "p", "a", "t", "i", "b", "l", "e">>

N_offset == <<"o", "f", "f", "s", "e", "t">>

N_size == <<"s", "i", "z", "e">>

N_file == <<"f", "i", "l", "e">>

AssignAnyType(a, name, t) ==
    IF name = N_description /\ t.tag = "String" THEN [a EXCEPT !.description = t.str]
    ELSE IF name = N_compatible /\ t.tag = "String" THEN [a EXCEPT !.compatible = t.str]
    ELSE IF name = N_offset /\ t.tag = "U32" THEN [a EXCEPT !.offset = Some(t.num)]
    ELSE IF name = N_size THEN [a EXCEPT !.size = t.num]
    ELSE IF name = N_file /\ t.tag = "String" THEN [a EXCEPT !.file = Some(t.str)]
    ELSE a

\* match (name, infer_type(data)) { ... (_, _) => {} }
Assign(a, name, t) ==
    IF name = N_description /\ t.tag = "String" THEN [a EXCEPT !.description = t.str]
    ELSE IF name = N_compatible /\ t.tag = "String" THEN [a EXCEPT !.compatible = t.str]
    ELSE IF name = N_offset /\ t.tag = "U32" THEN [a EXCEPT !.offset = Some(t.num)]
    ELSE IF name = N_size /\ t.tag = "U32" THEN [a EXCEPT !.size = t.num]
    ELSE IF name = N_file /\ t.tag = "String" THEN [a EXCEPT !.file = Some(t.str)]
    ELSE a

IsAreaNodeLoose(name) == StartsWith(name, <<"a", "r", "e", "a">>)

\* name.starts_with("area@")
IsAreaNode(name) == StartsWith(name, <<"a", "r", "e", "a", "@">>)

\* the event iter.next() returns
Ev == stream[pos]

\* read_fixed_fdt: a node named area@...; read_area_node starts
TopStartArea ==
    /\ fpc = "top"
    /\ pos <= Len(stream)
    /\ Ev.kind = "StartNode"
    /\ IsAreaNode(Ev.name)
    /\ area' = DefaultArea
    /\ fpc' = "area"
    /\ pos' = pos + 1
    /\ UNCHANGED <<stream, fdt_areas, layoutVars>>

\* read_fixed_fdt: any other node; the loop goes on with its first event
TopStartOther ==
    /\ fpc = "top"
    /\ pos <= Len(stream)
    /\ Ev.kind = "StartNode"
    /\ ~IsAreaNode(Ev.name)
    /\ pos' = pos + 1
    /\ UNCHANGED <<stream, fdt_areas, area, fpc, layoutVars>>

\* read_fixed_fdt: Entry::EndNode => continue
TopEndNode ==
    /\ fpc = "top"
    /\ pos <= Len(stream)
    /\ Ev.kind = "EndNode"
    /\ pos' = pos + 1
    /\ UNCHANGED <<stream, fdt_areas, area, fpc, layoutVars>>

\* read_fixed_fdt: Entry::Property => continue
TopProperty ==
    /\ fpc = "top"
    /\ pos <= Len(stream)
    /\ Ev.kind = "Property"
    /\ pos' = pos + 1
    /\ UNCHANGED <<stream, fdt_areas, area, fpc, layoutVars>>

\* read_fixed_fdt: iter.next() is None, Ok(areas)
TopDone ==
    /\ fpc = "top"
    /\ pos > Len(stream)
    /\ fpc' = "done"
    /\ UNCHANGED <<stream, pos, fdt_areas, area, layoutVars>>

\* read_area_node: Entry::StartNode => iter.skip_node()
AreaStartNode ==
    /\ fpc = "area"
    /\ pos <= Len(stream)
    /\ Ev.kind = "StartNode"
    /\ pos' = skip_node(pos + 1)
    /\ UNCHANGED <<stream, fdt_areas, area, fpc, layoutVars>>

\* read_area_node: Entry::EndNode => return Ok(area); areas.push(..)
AreaEndNode ==
    /\ fpc = "area"
    /\ pos <= Len(stream)
    /\ Ev.kind = "EndNode"
    /\ fdt_areas' = Append(fdt_areas, area)
    /\ fpc' = "top"
    /\ pos' = pos + 1
    /\ UNCHANGED <<stream, area, layoutVars>>

\* read_area_node: Entry::Property
AreaProperty ==
    /\ fpc = "area"
    /\ pos <= Len(stream)
    /\ Ev.kind = "Property"
    /\ area' = Assign(area, Ev.name, infer_type(read_all(Ev.value)))
    /\ pos' = pos + 1
    /\ UNCHANGED <<stream, fdt_areas, fpc, layoutVars>>

(***************************************************************************)
(* Inputs of read_fixed_fdt: well-formed streams.  Every node that is      *)
(* opened is closed, so read_area_node always leaves by its EndNode arm.   *)
(***************************************************************************)
NodeNames == { <<"a", "r", "e", "a", "@", "0">>, <<"a", "r", "e", "a", "s">> }

PropNames == { N_description, N_compatible, N_offset, N_size, N_file,
               <<"c", "h", "e", "c", "k", "s", "u", "m">> }

\* raw values: the u32 2 and the string "g"
PropValues == { <<0, 0, 0, 2>>, <<103, 0>> }

Slots == {"A", "O", "E", "P"}

Count(sk, kinds, upto) == Cardinality({k \in 1..upto : sk[k] \in kinds})

\* depth below the root before event k of the body
BodyDepth(sk, k) == Count(sk, {"A", "O"}, k - 1) - Count(sk, {"E"}, k - 1)

Balanced(sk) ==
    /\ \A k \in 1..Len(sk) : sk[k] = "E" => BodyDepth(sk, k) >= 1
    /\ BodyDepth(sk, Len(sk) + 1) = 0
    /\ Count(sk, {"P"}, Len(sk)) <= MaxProps

Skeletons == UNION {{sk \in [1..n -> Slots] : Balanced(sk)} : n \in 0..MaxBody}

PropSlots(sk) == {k \in 1..Len(sk) : sk[k] = "P"}

BodyEvent(sk, names, values, k) ==
    IF sk[k] = "A" THEN StartNode(<<"a", "r", "e", "a", "@", "0">>)
    ELSE IF sk[k] = "O" THEN StartNode(<<"a", "r", "e", "a", "s">>)
    ELSE IF sk[k] = "E" THEN EndNode
    ELSE Property(names[k], values[k])

InitFdt ==
    /\ \E sk \in Skeletons :
         \E names \in [PropSlots(sk) -> PropNames], values \in [PropSlots(sk) -> PropValues] :
            stream = <<StartNode(<<>>)>>
                       \o [k \in 1..Len(sk) |-> BodyEvent(sk, names, values, k)]
                       \o <<EndNode>>
    /\ pos = 1
    /\ fdt_areas = <<>>
    /\ area = DefaultArea
    /\ fpc = "top"
    /\ input = <<>>
    /\ areas = <<>>
    /\ perm = <<>>
    /\ pc = "idle"
    /\ i = 1
    /\ last_area_end = 0
    /\ offsets = <<>>
    /\ out = <<>>
    /\ err = NoErr
    /\ build = "unknown"

NextFdt ==
    \/ TopStartArea
    \/ TopStartOther
    \/ TopEndNode
    \/ TopProperty
    \/ TopDone
    \/ AreaStartNode
    \/ AreaEndNode
    \/ AreaProperty

SpecFdt == InitFdt /\ [][NextFdt]_vars

(***************************************************************************)
(* Properties of the extractor                                             *)
(***************************************************************************)
IsStart(p) == stream[p].kind = "StartNode"

\* number of nodes open just before event p
DepthBefore(p) ==
    Cardinality({q \in 1..(p - 1) : stream[q].kind = "StartNode"})
        - Cardinality({q \in 1..(p - 1) : stream[q].kind = "EndNode"})

\* the node opened at q is still open at event p
Encloses(q, p) ==
    /\ q < p
    /\ IsStart(q)
    /\ \A r \in (q + 1)..p : DepthBefore(r) > DepthBefore(q)

NamedArea(p) ==
    /\ IsStart(p)
    /\ Len(stream[p].name) >= 5
    /\ SubSeq(stream[p].name, 1, 5) = <<"a", "r", "e", "a", "@">>

\* the properties that are direct children of the node opened at q
DirectProps(q) ==
    {r \in 1..Len(stream) :
        /\ stream[r].kind = "Property"
        /\ Encloses(q, r)
        /\ DepthBefore(r) = DepthBefore(q) + 1}

\* the elements of a set of numbers in increasing order
RECURSIVE Ascending(_)
Ascending(S) ==
    IF S = {} THEN <<>>
    ELSE LET m == CHOOSE x \in S : \A y \in S : x <= y
         IN  <<m>> \o Ascending(S \ {m})

\* the property pairs the match of read_area_node has an arm for
Recognized(e) ==
    LET tag == infer_type(read_all(e.value)).tag
    IN  \/ e.name \in {N_description, N_compatible, N_file} /\ tag = "String"
        \/ e.name \in {N_offset, N_size} /\ tag = "U32"

\* the Area a node's direct properties describe, the last of a name winning
RECURSIVE Collect(_, _)
Collect(ps, a) ==
    IF ps = <<>> THEN a
    ELSE LET e == stream[Head(ps)]
             t == infer_type(read_all(e.value))
             b == IF ~Recognized(e) THEN a
                  ELSE IF e.name = N_description THEN [a EXCEPT !.description = t.str]
                  ELSE IF e.name = N_compatible THEN [a EXCEPT !.compatible = t.str]
                  ELSE IF e.name = N_file THEN [a EXCEPT !.file = <<t.str>>]
                  ELSE IF e.name = N_offset THEN [a EXCEPT !.offset = <<t.num>>]
                  ELSE [a EXCEPT !.size = t.num]
         IN  Collect(Tail(ps), b)

AreaOfNode(q) == Collect(Ascending(DirectProps(q)), DefaultArea)

AreasOf(S) == LET ps == Ascending(S) IN [k \in 1..Len(ps) |-> AreaOfNode(ps[k])]

\* C7 as stated: the result holds one Area per area@ node that is a direct
\* child of the root, in stream order; an area@ node inside another node
\* yields none.
C7_Stated ==
    fpc = "done" =>
        fdt_areas = AreasOf({p \in 1..Len(stream) : NamedArea(p) /\ DepthBefore(p) = 1})

\* C7 amended: the result holds one Area per area@ node that lies in no
\* other area@ node, at whatever depth, in stream order, built from that
\* node's own properties; only the nodes inside an area@ node are skipped.
C7_Areas ==
    fpc = "done" =>
        fdt_areas =
            AreasOf({p \in 1..Len(stream) :
                       NamedArea(p) /\ \A q \in 1..Len(stream) : Encloses(q, p) => ~NamedArea(q)})

\* a finished run over an area@ node below a node of another name, holding
\* an area@ node itself
C7_Witness ==
    /\ fpc = "done"
    /\ Len(fdt_areas) = 1
    /\ \E o, p, q \in 2..Len(stream) :
          /\ IsStart(o) /\ ~NamedArea(o) /\ Encloses(o, p)
          /\ NamedArea(p) /\ Encloses(p, q)
          /\ NamedArea(q)

\* C8: a property whose name has no arm, or whose inferred type is not the
\* one its name asks for, changes no field of the Area being built and ends
\* nothing: read_area_node goes on with the next event.
C8_Ignored ==
    [][(fpc = "area" /\ pos <= Len(stream) /\ stream[pos].kind = "Property"
          /\ ~Recognized(stream[pos]))
        => (area' = area /\ fpc' = "area" /\ fdt_areas' = fdt_areas /\ pos' = pos + 1)]_vars

\* an ignored property has just been read and an earlier field is still set
C8_Witness ==
    /\ fpc = "area"
    /\ pos > 2
    /\ stream[pos - 1].kind = "Property"
    /\ ~Recognized(stream[pos - 1])
    /\ stream[pos - 2].kind = "Property"
    /\ Recognized(stream[pos - 2])
    /\ area # DefaultArea

====
